---- MODULE Spec2Model ----
(***************************************************************************)
(* ECR auto-onboarding: the reconciliation workflow of                     *)
(*   src/src/lambda/ecr_auto_onboard_production.py  (variant "production") *)
(*   src/manual/ecr_auto_onboard_manual.py          (variant "manual")     *)
(* as a state machine.  One invocation walks the stages                    *)
(*   auth -> discover -> creds -> enhance -> existing -> diff -> register  *)
(*   -> cleanup -> classify -> delete -> notify -> done                    *)
(* against three remote systems: the asset inventory, the CSPM account     *)
(* registration service and the container-security registry service       *)
(* (the "target").  Strings whose structure the code inspects (account     *)
(* ids, regions, URLs) are sequences of tokens in which the separators     *)
(* ".", "//" and "_" are tokens of their own.                              *)
(***************************************************************************)
EXTENDS Integers, Sequences, FiniteSets, TLC

VARIABLES
    variant,                \* "production" | "manual"
    envDryRun,              \* DRY_RUN_MODE as configured (environment / config file)
    DRY_RUN_MODE,           \* the flag the code reads (module global / config entry)
    ENABLE_CLEANUP,         \* module global of the production variant
    inventory,              \* asset inventory: sequence of raw resources
    cspm,                   \* CSPM registration: sequence of account records
    target,                 \* registry service: sequence of registration records
    now,                    \* last value returned by datetime.now()
    runs,                   \* invocations started so far
    run_limit,              \* invocations the process serves
    pc,                     \* position of the current invocation
    result,                 \* the RunResult accumulator
    all_resources,          \* records the detail batches of discovery returned
    registries,             \* discovered registry groups
    credentials_map,        \* account_id -> credential
    enhanced_registries,    \* registries joined with credentials
    existing_registrations, \* URL collection returned by get_existing_registrations
    to_register,            \* the registration diff
    idx,                    \* loop index of the register / delete loop
    detail_response,        \* raw records the target returned to get_detailed_registrations
    detailed_registrations, \* what get_detailed_registrations returned
    cleanup_candidates,     \* what identify_registrations_for_cleanup returned
    cutoff_date,            \* cutoff computed by identify_registrations_for_cleanup
    calls,                  \* remote calls issued by the current invocation, in order
    outcomes,               \* register / delete outcomes of the current invocation, in order
    responses,              \* what the register / delete calls were answered, in the same order
    response,               \* what the entry point returned (statusCode / exit code)
    log,                    \* stages whose except clause caught a failure in this invocation
    previous,               \* what the previous invocation ended with
    target_at_start,        \* the target's registrations when the current invocation started
    counterpart             \* what the other variant returned on the same remote data

vars == <<variant, envDryRun, DRY_RUN_MODE, ENABLE_CLEANUP, inventory, cspm, target,
          now, runs, run_limit, pc, result, all_resources, registries, credentials_map, enhanced_registries,
          existing_registrations, to_register, idx, detail_response,
          detailed_registrations, cleanup_candidates, cutoff_date, calls, outcomes,
          responses, response, log, previous, target_at_start, counterpart>>

---------------------------------------------------------------------------
(* Bounds of the model *)

MaxResources == 2       \* raw resources in the inventory
MaxTarget == 2          \* registrations the target holds before the first run
StartTime == 10         \* clock value at Init, in days
MaxClockAdvance == 1    \* how far the clock may advance during a behaviour

(* Program constants *)

CLEANUP_OFFLINE_DAYS == 7
batch_size == 100

---------------------------------------------------------------------------
(* Strings as token sequences *)

\* Python's None; no string of the model equals it.
None == <<"<None>">>

\* Python truthiness of an optional string: None and "" are falsy.
Truthy(s) == s # None /\ s # <<>>

Range(s) == {s[k] : k \in 1..Len(s)}

Contains(s, tok) == \E k \in 1..Len(s) : s[k] = tok

IndexOf(s, tok) ==
    IF Contains(s, tok)
    THEN CHOOSE k \in 1..Len(s) : s[k] = tok /\ \A j \in 1..(k - 1) : s[j] # tok
    ELSE 0

\* s.split(tok)[0]
BeforeFirst(s, tok) ==
    IF Contains(s, tok) THEN SubSeq(s, 1, IndexOf(s, tok) - 1) ELSE s

\* everything after the first occurrence of tok (tok must occur)
AfterFirst(s, tok) == SubSeq(s, IndexOf(s, tok) + 1, Len(s))

\* f"https://{account_id}.dkr.ecr.{region}.amazonaws.com"
RegistryUrl(account_id, region) ==
    <<"https:", "//">> \o account_id \o <<".", "dkr", ".", "ecr", ".">>
        \o region \o <<".", "amazonaws", ".", "com">>

\* f"{account_id}_{region}"
RegistryKey(account_id, region) == account_id \o <<"_">> \o region

\* url.split('.')[0].split('//')[1] if '//' in url else None
\* ok = FALSE is the IndexError raised when the part before the first '.'
\* holds no '//'.
ExtractAccountId(url) ==
    IF ~Contains(url, "//")
    THEN [ok |-> TRUE, val |-> None]
    ELSE LET first == BeforeFirst(url, ".")
         IN  IF ~Contains(first, "//")
             THEN [ok |-> FALSE, val |-> None]
             ELSE [ok |-> TRUE, val |-> BeforeFirst(AfterFirst(first, "//"), "//")]

---------------------------------------------------------------------------
(* Registry Discovery: grouping of raw resources *)

NewGroup(res) ==
    [account_id   |-> res.account_id,
     region       |-> res.region,
     registry_url |-> RegistryUrl(res.account_id, res.region),
     repositories |-> <<res.resource_id>>]

\* One iteration of the grouping loop: registries_map[registry_key] is created
\* on first use and overwritten field by field afterwards; the groups keep
\* their insertion order.
AddResource(groups, res) ==
    IF Truthy(res.account_id) /\ Truthy(res.region)
    THEN LET key == RegistryKey(res.account_id, res.region)
             hit == {k \in 1..Len(groups) :
                        RegistryKey(groups[k].account_id, groups[k].region) = key}
         IN  IF hit = {}
             THEN Append(groups, NewGroup(res))
             ELSE LET k == CHOOSE k \in hit : TRUE
                  IN  [groups EXCEPT ![k] =
                          [account_id   |-> res.account_id,
                           region       |-> res.region,
                           registry_url |-> RegistryUrl(res.account_id, res.region),
                           repositories |-> Append(groups[k].repositories,
                                                   res.resource_id)]]
    ELSE groups

\* The grouping loop over the resources in fetch order, starting from groups
\* (the loop over a sequence is the loop over its first half followed by the
\* loop over its second half; the groups of the first half are computed
\* before the second half starts, as in the loop).
RECURSIVE GroupFrom(_, _)
GroupFrom(groups, resources) ==
    IF resources = <<>> THEN groups
    ELSE IF Len(resources) = 1 THEN AddResource(groups, resources[1])
    ELSE LET half == Len(resources) \div 2
             first == GroupFrom(groups, SubSeq(resources, 1, half))
         IN  IF Len(first) >= 0
             THEN GroupFrom(first, SubSeq(resources, half + 1, Len(resources)))
             ELSE first

GroupResources(resources) == GroupFrom(<<>>, resources)

\* range(0, len(resource_ids), batch_size): the number of detail batches
NumBatches(n) == (n + batch_size - 1) \div batch_size

\* resource_ids[i:i + batch_size] of the k-th batch (k = 1, 2, ...)
BatchIds(resource_ids, k) ==
    SubSeq(resource_ids, (k - 1) * batch_size + 1,
           IF k * batch_size < Len(resource_ids) THEN k * batch_size
           ELSE Len(resource_ids))

---------------------------------------------------------------------------
(* Credential Resolver *)

\* Mutant: the external id is not checked.
UsableWithoutExternalId(a) == Truthy(a.account_id) /\ Truthy(a.iam_role_arn)

\* if account_id and iam_role_arn and external_id:
Usable(a) == Truthy(a.account_id) /\ Truthy(a.iam_role_arn) /\ Truthy(a.external_id)

\* The loop over the response's account records: a record enters the map only
\* with account_id, iam_role_arn and external_id all truthy; a later record of
\* the same account overwrites an earlier one.
RECURSIVE CredentialsFrom(_, _)
CredentialsFrom(map, resources) ==
    IF resources = <<>> THEN map
    ELSE LET a == Head(resources)
             entry == [iam_role_arn |-> a.iam_role_arn,
                       external_id  |-> a.external_id,
                       account_name |-> a.account_name]
         IN  CredentialsFrom(
                 IF Usable(a)
                 THEN [x \in DOMAIN map \cup {a.account_id} |->
                          IF x = a.account_id THEN entry ELSE map[x]]
                 ELSE map,
                 Tail(resources))

EmptyMap == [x \in {} |-> {}]

BuildCredentialsMap(resources) == CredentialsFrom(EmptyMap, resources)

\* list(set(registry['account_id'] for registry in registries)), as a set
AccountIds(regs) == {regs[k].account_id : k \in 1..Len(regs)}

---------------------------------------------------------------------------
(* Registry Enricher *)

\* Mutant: the enriched record loses the group's repositories.
EnhanceWithoutRepositories(registry, creds) ==
    [account_id   |-> registry.account_id,
     region       |-> registry.region,
     registry_url |-> registry.registry_url,
     repositories |-> <<>>,
     iam_role_arn |-> creds.iam_role_arn,
     external_id  |-> creds.external_id,
     account_name |-> creds.account_name]

\* {**registry, 'iam_role_arn': ..., 'external_id': ..., 'account_name': ...}
Enhance(registry, creds) ==
    [account_id   |-> registry.account_id,
     region       |-> registry.region,
     registry_url |-> registry.registry_url,
     repositories |-> registry.repositories,
     iam_role_arn |-> creds.iam_role_arn,
     external_id  |-> creds.external_id,
     account_name |-> creds.account_name]

RECURSIVE EnhanceFrom(_, _, _)
EnhanceFrom(acc, regs, map) ==
    IF regs = <<>> THEN acc
    ELSE EnhanceFrom(
             IF Head(regs).account_id \in DOMAIN map
             THEN Append(acc, Enhance(Head(regs), map[Head(regs).account_id]))
             ELSE acc,
             Tail(regs), map)

enhance_registries_with_credentials(regs, map) == EnhanceFrom(<<>>, regs, map)

\* The drop-list of the same loop: missing_credentials.append(registry_url) in
\* the production variant, one warning line per group in the manual variant.
RECURSIVE MissingFrom(_, _, _)
MissingFrom(acc, regs, map) ==
    IF regs = <<>> THEN acc
    ELSE MissingFrom(
             IF Head(regs).account_id \in DOMAIN map
             THEN acc
             ELSE Append(acc, Head(regs).registry_url),
             Tail(regs), map)

missing_credentials(regs, map) == MissingFrom(<<>>, regs, map)

---------------------------------------------------------------------------
(* Existing-State Fetcher *)

\* Mutant: the registry type is not checked.
IsAnyWithUrl(registry) == Truthy(registry.url)

IsEcrWithUrl(registry) == registry.type = "ecr" /\ Truthy(registry.url)

RECURSIVE Dedup(_, _)
Dedup(acc, s) ==
    IF s = <<>> THEN acc
    ELSE Dedup(IF Head(s) \in Range(acc) THEN acc ELSE Append(acc, Head(s)), Tail(s))

RECURSIVE UrlsOf(_)
UrlsOf(regs) ==
    IF regs = <<>> THEN <<>>
    ELSE IF IsEcrWithUrl(Head(regs))
         THEN <<Head(regs).url>> \o UrlsOf(Tail(regs))
         ELSE UrlsOf(Tail(regs))

\* Mutant: only the first registration of the detail response is read.
ExistingUrlsFirstOnly(v, regs) ==
    IF UrlsOf(regs) = <<>> THEN <<>> ELSE <<Head(UrlsOf(regs))>>

\* The URL collection built from the detail response: a set in the production
\* variant (each URL once), a list in the manual variant (duplicates kept).
ExistingUrls(v, regs) ==
    IF v = "production" THEN Dedup(<<>>, UrlsOf(regs)) ELSE UrlsOf(regs)

RegistrationInfo(registry) ==
    [id            |-> registry.id,
     url           |-> registry.url,
     account_id    |-> ExtractAccountId(registry.url).val,
     state         |-> registry.state,
     last_activity |-> registry.last_activity]

RECURSIVE InfosOf(_)
InfosOf(regs) ==
    IF regs = <<>> THEN <<>>
    ELSE IF IsEcrWithUrl(Head(regs))
         THEN <<RegistrationInfo(Head(regs))>> \o InfosOf(Tail(regs))
         ELSE InfosOf(Tail(regs))

\* The loop of get_detailed_registrations over the detail response; an
\* IndexError of the account-id extraction is caught by the function's
\* except clause, which returns [].
DetailedFrom(regs) ==
    IF \E k \in 1..Len(regs) : IsEcrWithUrl(regs[k]) /\ ~ExtractAccountId(regs[k].url).ok
    THEN <<>>
    ELSE InfosOf(regs)

---------------------------------------------------------------------------
(* Cleanup classification *)

\* last_activity values: kind "none" (null), "empty" (""), "malformed" (not
\* ISO-8601), "naive" (ISO-8601 without offset), "z" (ending in 'Z'),
\* "offset" (with a numeric UTC offset); t is the instant, in days.
LaTruthy(la) == la.kind \notin {"none", "empty"}

\* datetime.fromisoformat(last_activity.replace('Z', '+00:00')):
\* ok = FALSE is the ValueError; aware = the result carries a tzinfo.
ParseIso(la) ==
    CASE la.kind = "naive"  -> [ok |-> TRUE,  aware |-> FALSE, t |-> la.t]
      [] la.kind = "z"      -> [ok |-> TRUE,  aware |-> TRUE,  t |-> la.t]
      [] la.kind = "offset" -> [ok |-> TRUE,  aware |-> TRUE,  t |-> la.t]
      [] OTHER              -> [ok |-> FALSE, aware |-> FALSE, t |-> 0]

\* activity_date < cutoff_date with cutoff_date naive (datetime.now() minus a
\* timedelta): comparing an aware with a naive datetime raises TypeError.
ActivityBefore(activity, cutoff) ==
    IF activity.aware THEN [raised |-> TRUE,  val |-> FALSE]
    ELSE [raised |-> FALSE, val |-> activity.t < cutoff]

\* Mutant: rule 1 (account not in CSPM = IGNORE) is missing.
ClassifyWithoutIgnore(registration, cspm_accounts, cutoff) ==
    IF registration.state = "offline" /\ LaTruthy(registration.last_activity)
    THEN LET activity == ParseIso(registration.last_activity)
             cmp == ActivityBefore(activity, cutoff)
         IN  IF activity.ok /\ ~cmp.raised /\ cmp.val THEN "DELETE" ELSE "KEEP"
    ELSE "KEEP"

\* Mutant: an offline registration without a usable last_activity is deleted.
ClassifyDeletesAmbiguous(registration, cspm_accounts, cutoff) ==
    IF registration.account_id \notin DOMAIN cspm_accounts
    THEN "IGNORE"
    ELSE IF registration.state = "offline"
         THEN LET activity == ParseIso(registration.last_activity)
                  cmp == ActivityBefore(activity, cutoff)
              IN  IF ~LaTruthy(registration.last_activity) \/ ~activity.ok THEN "DELETE"
                  ELSE IF cmp.raised THEN "KEEP"
                  ELSE IF cmp.val THEN "DELETE"
                  ELSE "KEEP"
         ELSE "KEEP"

\* The body of the classification loop for one registration.
Classify(registration, cspm_accounts, cutoff) ==
    IF registration.account_id \notin DOMAIN cspm_accounts
    THEN "IGNORE"
    ELSE IF registration.state = "offline" /\ LaTruthy(registration.last_activity)
         THEN LET activity == ParseIso(registration.last_activity)
                  cmp == ActivityBefore(activity, cutoff)
              IN  IF ~activity.ok THEN "KEEP"          \* except: keep it safe
                  ELSE IF cmp.raised THEN "KEEP"       \* except: keep it safe
                  ELSE IF cmp.val THEN "DELETE"
                  ELSE "KEEP"
         ELSE "KEEP"

RECURSIVE CandidatesFrom(_, _, _)
CandidatesFrom(regs, cspm_accounts, cutoff) ==
    IF regs = <<>> THEN <<>>
    ELSE IF Classify(Head(regs), cspm_accounts, cutoff) = "DELETE"
         THEN <<Head(regs)>> \o CandidatesFrom(Tail(regs), cspm_accounts, cutoff)
         ELSE CandidatesFrom(Tail(regs), cspm_accounts, cutoff)

\* cutoff_date = datetime.now() - timedelta(days=CLEANUP_OFFLINE_DAYS)
Cutoff(clock) == clock - CLEANUP_OFFLINE_DAYS

identify_registrations_for_cleanup(regs, cspm_accounts, clock) ==
    CandidatesFrom(regs, cspm_accounts, Cutoff(clock))

\* determine_cleanup_reason reads the clock twice: clock1 for its own cutoff,
\* clock2 for days_offline.
determine_cleanup_reason(registration, cspm_accounts, clock1, clock2) ==
    LET la == registration.last_activity
        fallback == [kind |-> "state", state |-> registration.state,
                     last_activity |-> la, days |-> 0]
    IN  IF DOMAIN cspm_accounts # {} /\ registration.account_id \notin DOMAIN cspm_accounts
        THEN [kind |-> "not_in_cspm", state |-> registration.state,
              last_activity |-> la, days |-> 0]
        ELSE IF LaTruthy(la)
             THEN LET activity == ParseIso(la)
                      cmp == ActivityBefore(activity, Cutoff(clock1))
                  IN  IF activity.ok /\ ~cmp.raised /\ cmp.val
                      THEN [kind |-> "offline_days", state |-> registration.state,
                            last_activity |-> la, days |-> clock2 - activity.t]
                      ELSE fallback
             ELSE fallback

---------------------------------------------------------------------------
(* Apply layer: outcomes of one register / delete call *)

\* A remote response: an HTTP status with a body, or a transport exception.
\* Body kinds: "id" (JSON with resources.id), "errors" (JSON with a non-empty
\* errors list carrying a message), "no_errors" (JSON object without errors
\* and without resources), "invalid" (not JSON), "empty" (no content).
Http(status, body) == [kind |-> "http", status |-> status, body |-> body]
TransportError == [kind |-> "exception", status |-> 0, body |-> "none"]

NoId == <<"none", 0, 0>>
NoError == [kind |-> "none", status |-> 0]
ServerMessage(status) == [kind |-> "server", status |-> status]   \* errors[0]['message']
HttpStatusMessage(status) == [kind |-> "http", status |-> status] \* f"HTTP {status}"
ExceptionMessage == [kind |-> "exception", status |-> 0]          \* str(e)

RegisterFailure(registry, error) ==
    [op |-> "register", raised |-> FALSE, success |-> FALSE, registry |-> registry,
     registry_id |-> [kind |-> "none", id |-> NoId],
     cleanup_reason |-> [kind |-> "n/a"], error |-> error]

RegisterSuccess(registry, registry_id) ==
    [op |-> "register", raised |-> FALSE, success |-> TRUE, registry |-> registry,
     registry_id |-> registry_id,
     cleanup_reason |-> [kind |-> "n/a"], error |-> NoError]

\* Mutant: a transport exception of the POST is not caught.
RegisterOutcomePropagates(v, registry, dry, resp, new_id) ==
    IF dry THEN RegisterSuccess(registry, [kind |-> "dry-run-id", id |-> NoId])
    ELSE IF resp.kind = "exception"
    THEN [RegisterFailure(registry, ExceptionMessage) EXCEPT !.raised = TRUE]
    ELSE IF resp.status \in {200, 201}
    THEN RegisterSuccess(registry, [kind |-> "id", id |-> new_id])
    ELSE RegisterFailure(registry, ServerMessage(resp.status))

\* register_ecr_registry: dry is the dry-run flag, resp the response to the
\* POST (unused in dry-run), new_id the id the server assigns.  Every request
\* and every parse of a response sits inside the function's try block, so the
\* function returns an outcome and never raises (raised = FALSE).
RegisterOutcome(v, registry, dry, resp, new_id) ==
    IF dry THEN RegisterSuccess(registry, [kind |-> "dry-run-id", id |-> NoId])
    ELSE IF resp.kind = "exception" THEN RegisterFailure(registry, ExceptionMessage)
    ELSE IF resp.status \in {200, 201}
    THEN CASE resp.body = "id" ->
                  RegisterSuccess(registry, [kind |-> "id", id |-> new_id])
           [] resp.body \in {"errors", "no_errors"} ->
                  RegisterSuccess(registry, [kind |-> "unknown", id |-> NoId])
           [] OTHER -> RegisterFailure(registry, ExceptionMessage)  \* response.json() raises
    ELSE CASE resp.body = "errors" -> RegisterFailure(registry, ServerMessage(resp.status))
           [] resp.body \in {"no_errors", "id"} ->
                  RegisterFailure(registry, HttpStatusMessage(resp.status))
           [] resp.body = "empty" /\ v = "manual" ->
                  RegisterFailure(registry, HttpStatusMessage(resp.status))
           [] OTHER -> RegisterFailure(registry, ExceptionMessage)  \* response.json() raises

DryRunReason == [kind |-> "dry_run"]          \* 'Dry run mode'
ManualCleanupReason == [kind |-> "manual"]    \* 'Manual cleanup'
NoReason == [kind |-> "none"]                 \* cleanup_reason = None

\* cleanup_reason or <default>
ReasonOr(cleanup_reason, default) ==
    IF cleanup_reason = NoReason THEN default ELSE cleanup_reason

DeleteResult(registration, success, cleanup_reason, error) ==
    [op |-> "delete", raised |-> FALSE, success |-> success, registry |-> registration,
     registry_id |-> [kind |-> "n/a", id |-> NoId],
     cleanup_reason |-> cleanup_reason, error |-> error]

\* delete_ecr_registry
DeleteOutcome(registration, cleanup_reason, dry, resp) ==
    IF dry
    THEN DeleteResult(registration, TRUE, ReasonOr(cleanup_reason, DryRunReason), NoError)
    ELSE IF resp.kind = "exception"
    THEN DeleteResult(registration, FALSE, ReasonOr(cleanup_reason, ManualCleanupReason),
                      ExceptionMessage)
    ELSE IF resp.status \in {200, 204}
    THEN DeleteResult(registration, TRUE, ReasonOr(cleanup_reason, ManualCleanupReason),
                      NoError)
    ELSE DeleteResult(registration, FALSE, ReasonOr(cleanup_reason, ManualCleanupReason),
                      IF resp.body = "errors" THEN ServerMessage(resp.status)
                      ELSE HttpStatusMessage(resp.status))

\* Mutant: register_ecr_registry sends its request a second time.
RegisterRequestsRetried(dry, registry) ==
    IF dry THEN <<>>
    ELSE <<[svc |-> "registry", method |-> "POST", op |-> "create",
            arg |-> registry.registry_url],
           [svc |-> "registry", method |-> "POST", op |-> "create",
            arg |-> registry.registry_url]>>

\* Mutant: the dry-run check of register_ecr_registry is missing.
RegisterRequestsAlways(dry, registry) ==
    <<[svc |-> "registry", method |-> "POST", op |-> "create",
       arg |-> registry.registry_url]>>

\* The requests register_ecr_registry / delete_ecr_registry issue: none in
\* dry-run (the function returns before building the request).
RegisterRequests(dry, registry) ==
    IF dry THEN <<>>
    ELSE <<[svc |-> "registry", method |-> "POST", op |-> "create",
            arg |-> registry.registry_url]>>

DeleteRequests(dry, registration) ==
    IF dry THEN <<>>
    ELSE <<[svc |-> "registry", method |-> "DELETE", op |-> "delete",
            arg |-> registration.id]>>

\* What a register / delete call was answered: nothing in dry-run, where no
\* request is sent.
Answer(dry, resp) ==
    IF dry THEN [kind |-> "none", status |-> 0, body |-> "none"] ELSE resp

\* What the registry service does with a request: any 2xx answer means the
\* request was carried out.
Accepted(resp) == resp.kind = "http" /\ resp.status \in 200..299

NewRegistration(new_id, url) ==
    [id |-> new_id, type |-> "ecr", url |-> url, state |-> "active",
     last_activity |-> [kind |-> "none", t |-> 0]]

RemoveId(regs, id) == SelectSeq(regs, LAMBDA r : r.id # id)

---------------------------------------------------------------------------
(* The remote systems' data the model draws from *)

AcctA == <<"111111111111">>
AcctB == <<"222222222222">>
AcctC == <<"333333333333">>      \* an account the inventory never reports
Region1 == <<"us-east-1">>
Region2 == <<"eu-west-1">>

\* s[k] for the k of S, in ascending order
RECURSIVE PickFrom(_, _, _)
PickFrom(s, S, k) ==
    IF k > Len(s) THEN <<>>
    ELSE (IF k \in S THEN <<s[k]>> ELSE <<>>) \o PickFrom(s, S, k + 1)

SubSequences(s, max) ==
    {PickFrom(s, S, 1) : S \in {S \in SUBSET (1..Len(s)) : Cardinality(S) <= max}}

Resource(id, account_id, region, resource_id) ==
    [id |-> id, account_id |-> account_id, region |-> region, resource_id |-> resource_id]

ResourcePool ==
    << Resource("res-1", AcctA, Region1, "repo-a"),
       Resource("res-2", AcctA, Region1, "repo-a2"),
       Resource("res-3", AcctB, Region1, "repo-b"),
       Resource("res-4", None,  Region1, "repo-x") >>

Inventories == SubSequences(ResourcePool, MaxResources)

Account(account_id, account_name, iam_role_arn, external_id) ==
    [account_id |-> account_id, account_name |-> account_name,
     iam_role_arn |-> iam_role_arn, external_id |-> external_id]

CspmChoices ==
    {a \o b :
        a \in { <<Account(AcctA, <<"prod">>, <<"arn-a">>, <<"ext-a">>)>>,
                <<Account(AcctA, <<"prod">>, <<"arn-a">>, None)>> },
        b \in { <<>>, <<Account(AcctB, <<"dev">>, <<"arn-b">>, <<"ext-b">>)>> }}

Old == StartTime - 10                           \* older than the threshold
Boundary == StartTime - CLEANUP_OFFLINE_DAYS    \* age = threshold at StartTime
Recent == StartTime - 3                         \* younger than the threshold

Registration(n, type, url, state, kind, t) ==
    [id |-> <<"old", n, 0>>, type |-> type, url |-> url, state |-> state,
     last_activity |-> [kind |-> kind, t |-> t]]

UrlA1 == RegistryUrl(AcctA, Region1)
UrlA2 == RegistryUrl(AcctA, Region2)
UrlB1 == RegistryUrl(AcctB, Region1)
UrlC1 == RegistryUrl(AcctC, Region1)
UrlNoScheme == <<"registry", ".", "example", ".", "com">>

TargetPool ==
    << Registration(1,  "ecr",    UrlA2, "offline", "naive", Old),
       Registration(2,  "ecr",    UrlA2, "offline", "naive", Boundary),
       Registration(3,  "ecr",    UrlA2, "offline", "naive", Recent),
       Registration(4,  "ecr",    UrlA2, "offline", "z", Old),
       Registration(5,  "ecr",    UrlA2, "offline", "none", 0),
       Registration(6,  "ecr",    UrlA2, "offline", "malformed", 0),
       Registration(7,  "ecr",    UrlA2, "active",  "naive", Old),
       Registration(8,  "docker", UrlA2, "offline", "naive", Old),
       Registration(9,  "ecr",    UrlC1, "offline", "naive", Old),
       Registration(10, "ecr",    UrlNoScheme, "offline", "naive", Old),
       Registration(11, "ecr",    UrlA1, "active",  "none", 0),
       Registration(12, "ecr",    UrlB1, "offline", "naive", Old),
       Registration(13, "ecr",    UrlA2, "offline", "empty", 0) >>

\* Registrations that differ in what the registration diff reads (type, url).
UrlPool ==
    << Registration(21, "ecr",    UrlA1, "active", "none", 0),
       Registration(22, "ecr",    UrlB1, "active", "none", 0),
       Registration(23, "docker", UrlA1, "active", "none", 0),
       Registration(24, "ecr",    UrlA1 \o <<"/">>, "active", "none", 0) >>

\* Inventories of the cleanup scenarios: account A alone, accounts A and B.
CleanupInventories == {PickFrom(ResourcePool, {1}, 1), PickFrom(ResourcePool, {1, 3}, 1)}

\* Responses the registry service gives to the workflow's mutating calls.
RegisterResponses == {Http(201, "id"), Http(500, "errors"), TransportError}
DeleteResponses == {Http(200, "empty"), Http(500, "errors"), TransportError}

ClockValues == StartTime..(StartTime + MaxClockAdvance)

---------------------------------------------------------------------------
(* The RunResult accumulator *)

InitialResult(dry, cleanup) ==
    [discovered_registries |-> 0, enhanced_registries |-> 0,
     existing_registrations |-> 0, new_registrations |-> 0,
     failed_registrations |-> 0, cleanup_enabled |-> cleanup,
     cleanup_candidates |-> 0, deleted_registrations |-> 0,
     failed_deletions |-> 0, dry_run_mode |-> dry, errors |-> <<>>,
     newly_registered |-> <<>>, deleted_registries |-> <<>>,
     failed_registrations_list |-> <<>>, failed_deletions_list |-> <<>>]

\* Mutant: a failed registration is listed but not counted.
RecordRegistrationUncounted(res, reg_result) ==
    IF reg_result.success
    THEN [res EXCEPT !.new_registrations = @ + 1,
                     !.newly_registered = Append(@, reg_result)]
    ELSE [res EXCEPT !.failed_registrations_list = Append(@, reg_result)]

\* if reg_result['success']: ... else: ...
RecordRegistration(res, reg_result) ==
    IF reg_result.success
    THEN [res EXCEPT !.new_registrations = @ + 1,
                     !.newly_registered = Append(@, reg_result)]
    ELSE [res EXCEPT !.failed_registrations = @ + 1,
                     !.failed_registrations_list = Append(@, reg_result)]

\* if del_result['success']: ... else: ...
RecordDeletion(res, del_result) ==
    IF del_result.success
    THEN [res EXCEPT !.deleted_registrations = @ + 1,
                     !.deleted_registries = Append(@, del_result)]
    ELSE [res EXCEPT !.failed_deletions = @ + 1,
                     !.failed_deletions_list = Append(@, del_result)]

Call(svc, method, op, arg) == [svc |-> svc, method |-> method, op |-> op, arg |-> arg]

NoResponse == [kind |-> "none", code |-> 0]

\* cutoff_date before identify_registrations_for_cleanup has run
NoCutoff == [set |-> FALSE, at |-> 0]

\* except Exception as e: result['errors'].append(str(e)) of the workflow
WorkflowFailed(res) == [res EXCEPT !.errors = Append(@, "exception")]

\* Mutant: the workflow goes on after a failed authentication.
AfterAuthContinues(authenticated) == "discover"

\* if not self.authenticate(): ... return result
AfterAuth(authenticated) == IF authenticated THEN "discover" ELSE "return"

---------------------------------------------------------------------------
(* Init *)

\* previous before the first invocation has ended
NoRun == [ended |-> FALSE, dry_run_mode |-> FALSE, enhanced_registries |-> <<>>,
          registered |-> {}, failed |-> {}]

NoCounterpart == [variant |-> "none"]

\* The process before its first invocation: the module globals as loaded and
\* no invocation in progress.
Loaded ==
    /\ DRY_RUN_MODE = envDryRun
    /\ now = StartTime
    /\ runs = 0
    /\ pc = "idle"
    /\ result = InitialResult(envDryRun, ENABLE_CLEANUP)
    /\ all_resources = <<>>
    /\ registries = <<>>
    /\ credentials_map = EmptyMap
    /\ enhanced_registries = <<>>
    /\ existing_registrations = <<>>
    /\ to_register = <<>>
    /\ idx = 0
    /\ detail_response = <<>>
    /\ detailed_registrations = <<>>
    /\ cleanup_candidates = <<>>
    /\ cutoff_date = NoCutoff
    /\ calls = <<>>
    /\ outcomes = <<>>
    /\ responses = <<>>
    /\ response = NoResponse
    /\ log = {}
    /\ previous = NoRun
    /\ target_at_start = target
    /\ counterpart = NoCounterpart

Init ==
    /\ variant \in {"production", "manual"}
    /\ envDryRun \in BOOLEAN
    /\ ENABLE_CLEANUP \in (IF variant = "production" THEN BOOLEAN ELSE {FALSE})
    /\ cspm \in CspmChoices
    /\ \/ /\ inventory \in Inventories
          /\ target \in SubSequences(UrlPool, MaxTarget)
       \/ /\ variant = "production" /\ ENABLE_CLEANUP
          /\ inventory \in CleanupInventories
          /\ target \in SubSequences(TargetPool, MaxTarget)
    /\ run_limit = 1
    /\ Loaded

Config == <<variant, envDryRun, ENABLE_CLEANUP, inventory, cspm, run_limit>>

---------------------------------------------------------------------------
(* Entry points *)

\* lambda_handler (production) / main (manual) up to the call of
\* run_onboarding_workflow and that function's result initialisation.
\* dry_run is event.get('dry_run') is True, resp. the --dry-run flag.  The
\* production handler assigns the module global and never resets it; the
\* manual entry point loads its configuration anew in every process.
Invoke(dry_run) ==
    /\ pc = "idle"
    /\ runs < run_limit
    /\ runs' = runs + 1
    /\ DRY_RUN_MODE' = IF variant = "production"
                       THEN (IF dry_run THEN TRUE ELSE DRY_RUN_MODE)
                       ELSE (envDryRun \/ dry_run)
    /\ result' = InitialResult(DRY_RUN_MODE', ENABLE_CLEANUP)
    /\ all_resources' = <<>>
    /\ registries' = <<>>
    /\ credentials_map' = EmptyMap
    /\ enhanced_registries' = <<>>
    /\ existing_registrations' = <<>>
    /\ to_register' = <<>>
    /\ idx' = 0
    /\ detail_response' = <<>>
    /\ detailed_registrations' = <<>>
    /\ cleanup_candidates' = <<>>
    /\ cutoff_date' = NoCutoff
    /\ calls' = <<>>
    /\ outcomes' = <<>>
    /\ responses' = <<>>
    /\ response' = NoResponse
    /\ log' = {}
    /\ target_at_start' = target
    /\ pc' = "auth"
    /\ UNCHANGED <<Config, counterpart, previous, target, now>>

\* The entry point's return: statusCode 200/500 (production), exit code 0/1
\* (manual), from the emptiness of the errors list.
\* Mutant: the handler reports success whatever the errors list holds.
StatusCodeAlwaysOk(v, res) ==
    IF v = "production" THEN [kind |-> "statusCode", code |-> 200]
    ELSE [kind |-> "exit", code |-> 0]

\* 'statusCode': 200 if not result.get('errors') else 500 (production);
\* return 1 if result.get('errors') else 0 (manual)
StatusCode(v, res) ==
    IF v = "production"
    THEN [kind |-> "statusCode", code |-> IF res.errors = <<>> THEN 200 ELSE 500]
    ELSE [kind |-> "exit", code |-> IF res.errors = <<>> THEN 0 ELSE 1]

\* What an invocation leaves behind for an observer of the next one: its
\* dry-run flag, its enriched registries and the URLs its register calls
\* succeeded and failed for.
RunSummary ==
    [ended |-> TRUE, dry_run_mode |-> DRY_RUN_MODE,
     enhanced_registries |-> enhanced_registries,
     registered |-> {outcomes[k].registry.registry_url :
                        k \in {j \in 1..Len(outcomes) :
                                  outcomes[j].op = "register" /\ outcomes[j].success}},
     failed |-> {outcomes[k].registry.registry_url :
                    k \in {j \in 1..Len(outcomes) :
                              outcomes[j].op = "register" /\ ~outcomes[j].success}}]

Return ==
    /\ pc = "return"
    /\ response' = StatusCode(variant, result)
    /\ previous' = RunSummary
    /\ pc' = "idle"
    /\ UNCHANGED <<Config, counterpart, target_at_start, all_resources, responses, log, DRY_RUN_MODE, target, now, runs, result, registries,
                   credentials_map, enhanced_registries, existing_registrations,
                   to_register, idx, detail_response, detailed_registrations,
                   cleanup_candidates, cutoff_date, calls, outcomes>>

---------------------------------------------------------------------------
(* Stages of run_onboarding_workflow *)

\* Step 1: authenticate().  how = "ok" | "http" (the token request fails) |
\* "secret" (production: the secret lookup raises before any request).
Authenticate(how) ==
    /\ pc = "auth"
    /\ how = "secret" => variant = "production"
    /\ calls' = IF how = "secret" THEN calls
                ELSE Append(calls, Call("auth", "POST", "token", <<>>))
    /\ pc' = AfterAuth(how = "ok")
    /\ result' = IF how = "ok" THEN result
                 ELSE [result EXCEPT !.errors = Append(@, "Authentication failed")]
    /\ log' = IF how = "ok" THEN log ELSE log \cup {"authenticate"}
    /\ UNCHANGED <<Config, counterpart, target_at_start, all_resources, responses, previous, DRY_RUN_MODE, target, now, runs, registries,
                   credentials_map, enhanced_registries, existing_registrations,
                   to_register, idx, detail_response, detailed_registrations,
                   cleanup_candidates, cutoff_date, outcomes, response>>

ResourceIdsOf(resources) == [k \in 1..Len(resources) |-> resources[k].id]

RECURSIVE DetailCalls(_, _, _)
DetailCalls(resource_ids, k, last) ==
    IF k > last THEN <<>>
    ELSE <<Call("inventory", "GET", "detail", BatchIds(resource_ids, k))>>
             \o DetailCalls(resource_ids, k + 1, last)

\* Step 2: discover_ecr_registries().  failed_at = -1: the id query fails;
\* failed_at = k > 0: the k-th detail batch fails; failed_at = 0: no failure.
\* complete = FALSE: the detail responses hold no record for the first id
\* submitted.
\* Mutant: a failure in a detail batch returns the groups of the batches
\* fetched before it.
DiscoveryResultPartial(failed_at, resources) ==
    IF failed_at = -1 THEN <<>>
    ELSE IF failed_at = 0 THEN GroupResources(resources)
    ELSE GroupResources(SubSeq(resources, 1, (failed_at - 1) * batch_size))

\* What discover_ecr_registries returns: the groups, or [] from its except
\* clause when the id query or a detail batch raised.
DiscoveryResult(failed_at, resources) ==
    IF failed_at # 0 THEN <<>> ELSE GroupResources(resources)

\* Mutant: the workflow goes on after an empty discovery.
AfterDiscoveryContinues(found) == "creds"

\* if not registries: ... return result
AfterDiscovery(found) == IF found = <<>> THEN "return" ELSE "creds"

Discover(failed_at, complete) ==
    /\ pc = "discover"
    /\ LET resource_ids == ResourceIdsOf(inventory)
           batches == IF resource_ids = <<>> THEN 0 ELSE NumBatches(Len(resource_ids))
           answered == IF failed_at = -1 THEN <<>>
                       ELSE IF failed_at > 0
                       THEN SubSeq(inventory, 1, (failed_at - 1) * batch_size)
                       ELSE IF complete THEN inventory ELSE Tail(inventory)
           found == DiscoveryResult(failed_at, all_resources')
       IN  /\ failed_at \in -1..batches
           /\ ~complete => (failed_at = 0 /\ inventory # <<>>)
           /\ log' = IF failed_at # 0 THEN log \cup {"discover_ecr_registries"} ELSE log
           /\ calls' = calls \o <<Call("inventory", "GET", "query", <<>>)>>
                          \o (IF failed_at = -1 THEN <<>>
                              ELSE DetailCalls(resource_ids, 1,
                                       IF failed_at = 0 THEN batches ELSE failed_at))
           /\ all_resources' = answered
           /\ registries' = found
           /\ result' = [result EXCEPT !.discovered_registries = Len(found)]
           /\ pc' = AfterDiscovery(found)
    /\ UNCHANGED <<Config, counterpart, target_at_start, responses, previous, DRY_RUN_MODE, target, now, runs,
                   credentials_map, enhanced_registries, existing_registrations,
                   to_register, idx, detail_response, detailed_registrations,
                   cleanup_candidates, cutoff_date, outcomes, response>>

\* Step 3: get_cspm_account_credentials / get_cspm_credentials.  The service
\* answers with the records of the requested accounts.
GetCredentials(ok) ==
    /\ pc = "creds"
    /\ LET account_ids == AccountIds(registries)
           resources == SelectSeq(cspm, LAMBDA a : a.account_id \in account_ids)
           map == IF ok THEN BuildCredentialsMap(resources) ELSE EmptyMap
       IN  /\ calls' = Append(calls, Call("cspm", "GET", "accounts", <<>>))
           /\ log' = IF ok THEN log ELSE log \cup {"get_cspm_account_credentials"}
           /\ credentials_map' = map
           /\ IF variant = "manual" /\ DOMAIN map = {}
              THEN /\ result' = [result EXCEPT
                                    !.errors = Append(@, "No CSPM credentials found")]
                   /\ pc' = "return"
              ELSE /\ result' = result
                   /\ pc' = "enhance"
    /\ UNCHANGED <<Config, counterpart, target_at_start, all_resources, responses, previous, DRY_RUN_MODE, target, now, runs, registries,
                   enhanced_registries, existing_registrations,
                   to_register, idx, detail_response, detailed_registrations,
                   cleanup_candidates, cutoff_date, outcomes, response>>

\* Mutant: an empty enrichment ends the run without an error.
NothingEnhancedSilent(v, errors) == errors

\* if not enhanced_registries: the production variant appends an error, the
\* manual variant only logs a warning.
NothingEnhanced(v, errors) ==
    IF v = "production"
    THEN Append(errors, "No registries could be enhanced with CSPM credentials")
    ELSE errors

\* Step 4: enhance_registries_with_credentials and the check that follows it.
Enrich ==
    /\ pc = "enhance"
    /\ LET enhanced == enhance_registries_with_credentials(registries, credentials_map)
       IN  /\ enhanced_registries' = enhanced
           /\ IF enhanced = <<>>
              THEN /\ pc' = "return"
                   /\ result' = [result EXCEPT
                         !.enhanced_registries = 0,
                         !.errors = NothingEnhanced(variant, @)]
              ELSE /\ pc' = "existing"
                   /\ result' = [result EXCEPT !.enhanced_registries = Len(enhanced)]
    /\ UNCHANGED <<Config, counterpart, target_at_start, all_resources, responses, log, previous, DRY_RUN_MODE, target, now, runs, registries,
                   credentials_map, existing_registrations,
                   to_register, idx, detail_response, detailed_registrations,
                   cleanup_candidates, cutoff_date, calls, outcomes, response>>

\* The two requests of a registry listing: the id query, then (when ids came
\* back) the detail request.  failed = "none" | "query" | "detail".
ListingCalls(failed) ==
    <<Call("registry", "GET", "query", <<>>)>>
        \o (IF failed = "query" \/ target = <<>> THEN <<>>
            ELSE <<Call("registry", "GET", "detail", <<>>)>>)

\* Step 5: get_existing_registrations().
GetExisting(failed) ==
    /\ pc = "existing"
    /\ failed = "detail" => target # <<>>
    /\ LET urls == IF failed = "none" THEN ExistingUrls(variant, target) ELSE <<>>
       IN  /\ existing_registrations' = urls
           /\ result' = [result EXCEPT !.existing_registrations = Len(urls)]
    /\ calls' = calls \o ListingCalls(failed)
    /\ log' = IF failed = "none" THEN log ELSE log \cup {"get_existing_registrations"}
    /\ pc' = "diff"
    /\ UNCHANGED <<Config, counterpart, target_at_start, all_resources, responses, previous, DRY_RUN_MODE, target, now, runs, registries,
                   credentials_map, enhanced_registries,
                   to_register, idx, detail_response, detailed_registrations,
                   cleanup_candidates, cutoff_date, outcomes, response>>

\* Mutant: the diff forgets the filter and registers every enriched registry.
RegistrationDiffUnfiltered(enhanced, existing) == enhanced

\* Mutant: registries whose register call failed in the previous invocation
\* are remembered and skipped.
RegistrationDiffSkipsFailed(enhanced, existing) ==
    SelectSeq(enhanced, LAMBDA reg : /\ reg.registry_url \notin Range(existing)
                                     /\ reg.registry_url \notin previous.failed)

\* [reg for reg in enhanced_registries if reg['registry_url'] not in existing_registrations]
RegistrationDiff(enhanced, existing) ==
    SelectSeq(enhanced, LAMBDA reg : reg.registry_url \notin Range(existing))

\* Step 6: the diff.  The production variant returns when nothing needs
\* registration; the manual variant goes on to its (empty) register loop.
Diff ==
    /\ pc = "diff"
    /\ to_register' = RegistrationDiff(enhanced_registries, existing_registrations)
    /\ idx' = 1
    /\ pc' = IF variant = "production" /\ to_register' = <<>> THEN "return" ELSE "register"
    /\ UNCHANGED <<Config, counterpart, target_at_start, all_resources, responses, log, previous, DRY_RUN_MODE, target, now, runs, result, registries,
                   credentials_map, enhanced_registries, existing_registrations,
                   detail_response, detailed_registrations,
                   cleanup_candidates, cutoff_date, calls, outcomes, response>>

---------------------------------------------------------------------------
(* Apply stages *)

\* Step 7, one iteration of the register loop: register_ecr_registry and the
\* bookkeeping of its outcome.
RegisterOne(resp) ==
    /\ pc = "register"
    /\ idx <= Len(to_register)
    /\ DRY_RUN_MODE => resp = TransportError      \* no response is read in dry-run
    /\ LET registry == to_register[idx]
           new_id == <<"new", runs, idx>>
           reg_result == RegisterOutcome(variant, registry, DRY_RUN_MODE, resp, new_id)
           requests == RegisterRequests(DRY_RUN_MODE, registry)
       IN  /\ calls' = calls \o requests
           /\ target' = IF requests # <<>> /\ Accepted(resp)
                        THEN Append(target, NewRegistration(new_id, registry.registry_url))
                        ELSE target
           /\ IF reg_result.raised
              THEN /\ result' = WorkflowFailed(result)
                   /\ outcomes' = outcomes
                   /\ responses' = responses
                   /\ pc' = "return"
              ELSE /\ result' = RecordRegistration(result, reg_result)
                   /\ outcomes' = Append(outcomes, reg_result)
                   /\ responses' = Append(responses, Answer(DRY_RUN_MODE, resp))
                   /\ pc' = pc
    /\ idx' = idx + 1
    /\ UNCHANGED <<Config, counterpart, target_at_start, all_resources, log, previous, DRY_RUN_MODE, now, runs, registries,
                   credentials_map, enhanced_registries, existing_registrations,
                   to_register, detail_response, detailed_registrations,
                   cleanup_candidates, cutoff_date, response>>

\* Mutant: after the register loop the workflow fetches the existing
\* registrations again.
AfterRegisterRefetches(v, cleanup) == "existing"

\* What follows the register loop: Step 8 (production, cleanup enabled), the
\* notification (production) or the return (manual).
AfterRegister(v, cleanup) ==
    IF v = "manual" THEN "return"
    ELSE IF cleanup THEN "cleanup" ELSE "notify"

\* The end of the register loop.
RegisterDone ==
    /\ pc = "register"
    /\ idx > Len(to_register)
    /\ pc' = AfterRegister(variant, ENABLE_CLEANUP)
    /\ UNCHANGED <<Config, counterpart, target_at_start, all_resources, responses, log, previous, DRY_RUN_MODE, target, now, runs, result, registries,
                   credentials_map, enhanced_registries, existing_registrations,
                   to_register, idx, detail_response, detailed_registrations,
                   cleanup_candidates, cutoff_date, calls, outcomes, response>>

\* Step 8: get_detailed_registrations().
GetDetailed(failed) ==
    /\ pc = "cleanup"
    /\ failed = "detail" => target # <<>>
    /\ LET raw == IF failed = "none" THEN target ELSE <<>>
           detailed == DetailedFrom(raw)
       IN  /\ detail_response' = raw
           /\ detailed_registrations' = detailed
           /\ pc' = IF detailed = <<>> THEN "notify" ELSE "classify"
    /\ calls' = calls \o ListingCalls(failed)
    /\ log' = IF failed = "none" /\ DetailedFrom(target) = InfosOf(target) THEN log
              ELSE log \cup {"get_detailed_registrations"}
    /\ UNCHANGED <<Config, counterpart, target_at_start, all_resources, responses, previous, DRY_RUN_MODE, target, now, runs, result, registries,
                   credentials_map, enhanced_registries, existing_registrations,
                   to_register, idx, cleanup_candidates, cutoff_date, outcomes,
                   response>>

\* identify_registrations_for_cleanup(detailed_registrations, credentials_map);
\* clock is what datetime.now() returns to it.
Identify(clock) ==
    /\ pc = "classify"
    /\ clock \in ClockValues /\ clock >= now
    /\ now' = clock
    /\ cutoff_date' = [set |-> TRUE, at |-> Cutoff(clock)]
    /\ cleanup_candidates' =
           identify_registrations_for_cleanup(detailed_registrations, credentials_map, clock)
    /\ result' = [result EXCEPT !.cleanup_candidates = Len(cleanup_candidates')]
    /\ idx' = 1
    /\ pc' = IF cleanup_candidates' = <<>> THEN "notify" ELSE "delete"
    /\ UNCHANGED <<Config, counterpart, target_at_start, all_resources, responses, log, previous, DRY_RUN_MODE, target, runs, registries,
                   credentials_map, enhanced_registries, existing_registrations,
                   to_register, detail_response, detailed_registrations,
                   calls, outcomes, response>>

\* One iteration of the cleanup loop: determine_cleanup_reason (two clock
\* reads), delete_ecr_registry and the bookkeeping of its outcome.
DeleteOne(clock1, clock2, resp) ==
    /\ pc = "delete"
    /\ idx <= Len(cleanup_candidates)
    /\ clock1 \in ClockValues /\ clock2 \in ClockValues
    /\ now <= clock1 /\ clock1 <= clock2
    /\ DRY_RUN_MODE => resp = TransportError      \* no response is read in dry-run
    /\ LET registration == cleanup_candidates[idx]
           cleanup_reason ==
               determine_cleanup_reason(registration, credentials_map, clock1, clock2)
           del_result == DeleteOutcome(registration, cleanup_reason, DRY_RUN_MODE, resp)
           requests == DeleteRequests(DRY_RUN_MODE, registration)
       IN  /\ calls' = calls \o requests
           /\ target' = IF requests # <<>> /\ Accepted(resp)
                        THEN RemoveId(target, registration.id)
                        ELSE target
           /\ IF del_result.raised
              THEN /\ result' = WorkflowFailed(result)
                   /\ outcomes' = outcomes
                   /\ responses' = responses
                   /\ pc' = "return"
              ELSE /\ result' = RecordDeletion(result, del_result)
                   /\ outcomes' = Append(outcomes, del_result)
                   /\ responses' = Append(responses, Answer(DRY_RUN_MODE, resp))
                   /\ pc' = pc
    /\ now' = clock2
    /\ idx' = idx + 1
    /\ UNCHANGED <<Config, counterpart, target_at_start, all_resources, log, previous, DRY_RUN_MODE, runs, registries,
                   credentials_map, enhanced_registries, existing_registrations,
                   to_register, detail_response, detailed_registrations,
                   cleanup_candidates, cutoff_date, response>>

DeleteDone ==
    /\ pc = "delete"
    /\ idx > Len(cleanup_candidates)
    /\ pc' = "notify"
    /\ UNCHANGED <<Config, counterpart, target_at_start, all_resources, responses, log, previous, DRY_RUN_MODE, target, now, runs, result, registries,
                   credentials_map, enhanced_registries, existing_registrations,
                   to_register, idx, detail_response, detailed_registrations,
                   cleanup_candidates, cutoff_date, calls, outcomes, response>>

---------------------------------------------------------------------------
(* Report *)

NotificationNeeded(res) ==
    \/ res.new_registrations > 0
    \/ res.failed_registrations > 0
    \/ (ENABLE_CLEANUP /\ (res.deleted_registrations > 0 \/ res.failed_deletions > 0))

\* _build_new_registrations_section calls repo.get("repositoryName", ...) on
\* every listed repository; the repositories are the resource_id strings of
\* discovery, so the call raises AttributeError as soon as a newly registered
\* registry lists a repository.
HtmlBuildRaises(res) ==
    \E k \in 1..Len(res.newly_registered) :
        Len(res.newly_registered[k].registry.repositories) > 0

\* The end of the production workflow: the notification and the return of
\* result.  The messages are built before any try block, so an exception of
\* the build reaches the workflow's except clause, which appends str(e) to
\* errors; a failed delivery (delivered = FALSE) is caught inside
\* send_enhanced_notification, which only writes a log line: the workflow
\* goes on exactly as after a delivery.
Notify(delivered) ==
    /\ pc = "notify"
    /\ NotificationNeeded(result) \/ delivered
    /\ IF NotificationNeeded(result) /\ HtmlBuildRaises(result)
       THEN /\ delivered
            /\ result' = [result EXCEPT
                   !.errors = Append(@, "'str' object has no attribute 'get'")]
            /\ calls' = calls
            /\ log' = log
       ELSE /\ result' = result
            /\ calls' = IF NotificationNeeded(result)
                        THEN Append(calls, Call("notification", "POST", "publish", <<>>))
                        ELSE calls
            /\ log' = log
    /\ pc' = "return"
    /\ UNCHANGED <<Config, counterpart, target_at_start, all_resources, responses, previous, DRY_RUN_MODE, target, now, runs, registries,
                   credentials_map, enhanced_registries, existing_registrations,
                   to_register, idx, detail_response, detailed_registrations,
                   cleanup_candidates, cutoff_date, outcomes, response>>

---------------------------------------------------------------------------
(* Specification *)

(* Several invocations in one process *)

MaxRuns == 2      \* invocations the process serves

\* The remote systems of the multi-invocation scenarios: account A alone or
\* accounts A and B in the inventory, both with complete credentials; the
\* target empty or holding one stale registration of account A.
InitRuns ==
    /\ variant \in {"production", "manual"}
    /\ envDryRun = FALSE
    /\ ENABLE_CLEANUP = (variant = "production")
    /\ cspm = <<Account(AcctA, <<"prod">>, <<"arn-a">>, <<"ext-a">>),
                Account(AcctB, <<"dev">>, <<"arn-b">>, <<"ext-b">>)>>
    /\ inventory \in CleanupInventories
    /\ target \in {<<>>, <<Registration(1, "ecr", UrlA2, "offline", "naive", Old)>>}
    /\ run_limit = MaxRuns
    /\ Loaded

Next ==
    \/ \E dry_run \in BOOLEAN : Invoke(dry_run)
    \/ \E how \in {"ok", "http", "secret"} : Authenticate(how)
    \/ \E failed_at \in -1..MaxResources : Discover(failed_at, TRUE)
    \/ \E ok \in BOOLEAN : GetCredentials(ok)
    \/ Enrich
    \/ \E failed \in {"none", "query", "detail"} : GetExisting(failed)
    \/ Diff
    \/ \E resp \in RegisterResponses : RegisterOne(resp)
    \/ RegisterDone
    \/ \E failed \in {"none", "query", "detail"} : GetDetailed(failed)
    \/ \E clock \in ClockValues : Identify(clock)
    \/ \E clock1, clock2 \in ClockValues, resp \in DeleteResponses :
           DeleteOne(clock1, clock2, resp)
    \/ DeleteDone
    \/ \E delivered \in BOOLEAN : Notify(delivered)
    \/ Return

Spec == Init /\ [][Next]_vars

---------------------------------------------------------------------------
(* The workflow against a wider range of remote data: account ids and     *)
(* regions holding the separator of the grouping key, an inventory larger *)
(* than one detail batch, and more HTTP statuses and bodies.              *)

AcctU == <<"111", "_", "222">>
RegionU == <<"222", "_", "us-east-1">>
Acct1 == <<"111">>

WideResourcePool ==
    << Resource("res-1", AcctA, Region1, "repo-a"),
       Resource("res-2", AcctA, Region2, "repo-a"),
       Resource("res-3", AcctA, Region1, "repo-a"),
       Resource("res-4", None,  Region1, "repo-x"),
       Resource("res-5", AcctA, <<>>,    "repo-y"),
       Resource("res-6", Acct1, RegionU, "repo-u"),
       Resource("res-7", AcctU, Region1, "repo-v") >>

\* An inventory of batch_size + 1 repositories of one registry: its details
\* are fetched in two batches.
BigInventory ==
    [k \in 1..(batch_size + 1) |->
        Resource("res-" \o ToString(k), AcctA, Region1, "repo-" \o ToString(k))]

WideInventories == SubSequences(WideResourcePool, MaxResources) \cup {BigInventory}

WideRegisterResponses ==
    {Http(200, "id"), Http(201, "no_errors"), Http(202, "id"), Http(204, "empty"),
     Http(400, "errors"), Http(409, "no_errors"), Http(500, "empty"),
     Http(502, "invalid"), TransportError}

WideDeleteResponses ==
    {Http(200, "empty"), Http(204, "empty"), Http(202, "empty"),
     Http(404, "errors"), Http(500, "invalid"), TransportError}

InitWide ==
    /\ variant \in {"production", "manual"}
    /\ envDryRun = FALSE
    /\ ENABLE_CLEANUP = (variant = "production")
    /\ cspm = <<Account(AcctA, <<"prod">>, <<"arn-a">>, <<"ext-a">>)>>
    /\ inventory \in WideInventories
    /\ target = <<Registration(1, "ecr", RegistryUrl(AcctA, <<"ap-south-1">>),
                               "offline", "naive", Old)>>
    /\ run_limit = 1
    /\ Loaded

NextWide ==
    \/ \E dry_run \in BOOLEAN : Invoke(dry_run)
    \/ \E how \in {"ok", "http", "secret"} : Authenticate(how)
    \/ \E failed_at \in -1..NumBatches(batch_size + 1) : Discover(failed_at, TRUE)
    \/ Discover(0, FALSE)
    \/ \E ok \in BOOLEAN : GetCredentials(ok)
    \/ Enrich
    \/ \E failed \in {"none", "query", "detail"} : GetExisting(failed)
    \/ Diff
    \/ \E resp \in WideRegisterResponses : RegisterOne(resp)
    \/ RegisterDone
    \/ \E failed \in {"none", "query", "detail"} : GetDetailed(failed)
    \/ \E clock \in ClockValues : Identify(clock)
    \/ \E clock1, clock2 \in ClockValues, resp \in WideDeleteResponses :
           DeleteOne(clock1, clock2, resp)
    \/ DeleteDone
    \/ \E delivered \in BOOLEAN : Notify(delivered)
    \/ Return

SpecWide == InitWide /\ [][NextWide]_vars

SpecRuns == InitRuns /\ [][Next]_vars

(* Account records of every shape *)

MaxAccounts == 2      \* account records the CSPM registration holds

\* Account records as the CSPM registration service may hold them: complete,
\* without a role (null), with an empty role, without an external id (null),
\* with an empty external id.
CredsPool ==
    << Account(AcctA, <<"prod">>, <<"arn-a">>, <<"ext-a">>),
       Account(AcctA, <<"prod">>, None,        <<"ext-a">>),
       Account(AcctA, <<"prod">>, <<"arn-a">>, <<>>),
       Account(AcctB, <<"dev">>,  <<"arn-b">>, <<"ext-b">>),
       Account(AcctB, <<"dev">>,  <<"arn-b">>, None),
       Account(AcctB, <<"dev">>,  <<>>,        <<"ext-b">>) >>

\* Two groups (accounts A and B) or three (account A in two regions, B).
CredsInventories ==
    { << Resource("res-1", AcctA, Region1, "repo-a"),
         Resource("res-3", AcctB, Region1, "repo-b") >>,
      << Resource("res-1", AcctA, Region1, "repo-a"),
         Resource("res-2", AcctA, Region2, "repo-a"),
         Resource("res-3", AcctB, Region1, "repo-b") >> }

InitCreds ==
    /\ variant \in {"production", "manual"}
    /\ envDryRun = FALSE
    /\ ENABLE_CLEANUP = (variant = "production")
    /\ cspm \in SubSequences(CredsPool, MaxAccounts)
    /\ inventory \in CredsInventories
    /\ target \in {<<>>, <<Registration(1, "ecr", UrlA2, "offline", "naive", Old)>>}
    /\ run_limit = 1
    /\ Loaded

SpecCreds == InitCreds /\ [][Next]_vars

(* Registry URLs built from arbitrary account ids *)

AcctDot == <<"111", ".", "222">>       \* an account id containing '.'

\* Resources of accounts whose ids are digits only, contain '_', contain '.'.
UrlResourcePool ==
    << Resource("res-1", AcctA,   Region1, "repo-a"),
       Resource("res-2", AcctU,   Region1, "repo-u"),
       Resource("res-3", AcctDot, Region1, "repo-d"),
       Resource("res-4", Acct1,   RegionU, "repo-1") >>

\* Every account of the inventory has complete credentials; the target holds
\* one stale registration of account A.
InitUrl ==
    /\ variant = "production"
    /\ envDryRun = FALSE
    /\ ENABLE_CLEANUP = TRUE
    /\ cspm = << Account(AcctA,   <<"prod">>, <<"arn-a">>, <<"ext-a">>),
                 Account(AcctU,   <<"u">>,    <<"arn-u">>, <<"ext-u">>),
                 Account(AcctDot, <<"dot">>,  <<"arn-d">>, <<"ext-d">>),
                 Account(Acct1,   <<"one">>,  <<"arn-1">>, <<"ext-1">>) >>
    /\ inventory \in SubSequences(UrlResourcePool, MaxResources)
    /\ target = <<Registration(1, "ecr", UrlA2, "offline", "naive", Old)>>
    /\ run_limit = 1
    /\ Loaded

SpecUrl == InitUrl /\ [][Next]_vars

(* The two variants on the same remote data *)

CreateUrls ==
    LET creates == SelectSeq(calls, LAMBDA c : c.method = "POST" /\ c.op = "create")
    IN  [k \in 1..Len(creates) |-> creates[k].arg]

\* What an invocation returned and what it was answered: the dry-run flag in
\* effect, the stages that failed, the answers to its create calls, the create
\* calls it issued and the counts and errors of its RunResult.
Returned ==
    [variant |-> variant, dry_run_mode |-> DRY_RUN_MODE, log |-> log,
     responses |-> responses, creates |-> CreateUrls,
     discovered_registries |-> result.discovered_registries,
     enhanced_registries |-> result.enhanced_registries,
     existing_registrations |-> result.existing_registrations,
     new_registrations |-> result.new_registrations,
     failed_registrations |-> result.failed_registrations,
     no_errors |-> result.errors = <<>>]

\* The other variant is started as a fresh process against the remote data the
\* finished invocation started with.
Redeploy ==
    /\ pc = "idle" /\ runs = run_limit
    /\ counterpart = NoCounterpart
    /\ counterpart' = Returned
    /\ variant' = IF variant = "production" THEN "manual" ELSE "production"
    /\ target' = target_at_start
    /\ DRY_RUN_MODE' = envDryRun
    /\ runs' = 0
    /\ previous' = NoRun
    /\ UNCHANGED <<envDryRun, ENABLE_CLEANUP, inventory, cspm, run_limit, now, pc,
                   result, all_resources, registries, credentials_map,
                   enhanced_registries, existing_registrations, to_register, idx,
                   detail_response, detailed_registrations, cleanup_candidates,
                   cutoff_date, calls, outcomes, responses, response, log,
                   target_at_start>>

\* Cleanup disabled; the target empty, holding the registration of account A's
\* registry, or holding it twice.
InitPair ==
    /\ variant \in {"production", "manual"}
    /\ envDryRun = FALSE
    /\ ENABLE_CLEANUP = FALSE
    /\ cspm \in CspmChoices
    /\ inventory \in Inventories
    /\ target \in { <<>>,
                    <<Registration(21, "ecr", UrlA1, "active", "none", 0)>>,
                    <<Registration(21, "ecr", UrlA1, "active", "none", 0),
                      Registration(25, "ecr", UrlA1, "active", "none", 0)>> }
    /\ run_limit = 1
    /\ Loaded

NextPair ==
    \/ \E dry_run \in BOOLEAN : Invoke(dry_run)
    \/ \E how \in {"ok", "http", "secret"} : Authenticate(how)
    \/ \E failed_at \in -1..MaxResources : Discover(failed_at, TRUE)
    \/ \E ok \in BOOLEAN : GetCredentials(ok)
    \/ Enrich
    \/ \E failed \in {"none", "query", "detail"} : GetExisting(failed)
    \/ Diff
    \/ \E resp \in RegisterResponses : RegisterOne(resp)
    \/ RegisterDone
    \/ \E delivered \in BOOLEAN : Notify(delivered)
    \/ Return
    \/ Redeploy

SpecPair == InitPair /\ [][NextPair]_vars

---------------------------------------------------------------------------
(* Properties *)

RegisterOutcomes == SelectSeq(outcomes, LAMBDA o : o.op = "register")
DeleteOutcomes == SelectSeq(outcomes, LAMBDA o : o.op = "delete")

\* The registries handed to register_ecr_registry so far in this run.
PassedToRegister == {RegisterOutcomes[k].registry : k \in 1..Len(RegisterOutcomes)}

\* The enriched registries whose URL equals no URL of the existing collection.
NotYetRegistered ==
    {r \in Range(enhanced_registries) :
        \A k \in 1..Len(existing_registrations) :
            existing_registrations[k] # r.registry_url}

\* The run is past its register loop (or ended before it).
RegisterLoopOver ==
    pc \notin {"auth", "discover", "creds", "enhance", "existing", "diff", "register"}

\* C1: in both variants the registries passed to register_ecr_registry are
\* exactly the enriched registries whose registry_url equals no URL returned by
\* get_existing_registrations in that run: none of that collection is
\* registered, and once the register loop is over every enriched registry
\* outside it has been registered.
C1_RegistrationDiff ==
    /\ PassedToRegister \subseteq NotYetRegistered
    /\ RegisterLoopOver => PassedToRegister = NotYetRegistered

\* A finished run with two enriched registries of which one was already
\* registered (and skipped) and the other one was registered.
C1_Witness ==
    /\ pc = "return"
    /\ Len(enhanced_registries) = 2
    /\ \E r1, r2 \in Range(enhanced_registries) :
          /\ r1.registry_url \in Range(existing_registrations)
          /\ r2.registry_url \notin Range(existing_registrations)
          /\ PassedToRegister = {r2}

RegistryQueries ==
    {k \in 1..Len(calls) : calls[k].svc = "registry" /\ calls[k].op = "query"}

\* C2 (as claimed): in the production workflow with cleanup enabled, every
\* run that reaches the diff stage fetches the detailed registrations,
\* classifies them and passes every record classified DELETE to
\* delete_ecr_registry, whether or not the run has anything to register.
C2_CleanupInEveryRun ==
    (variant = "production" /\ ENABLE_CLEANUP /\ pc = "return"
        /\ enhanced_registries # <<>>)
    => /\ Cardinality(RegistryQueries) = 2
       /\ detailed_registrations # <<>> => cutoff_date.set
       /\ \A k \in 1..Len(detailed_registrations) :
             Classify(detailed_registrations[k], credentials_map, cutoff_date.at) = "DELETE"
             => \E j \in 1..Len(DeleteOutcomes) :
                    DeleteOutcomes[j].registry = detailed_registrations[k]

\* C3 (as claimed): every existing registration whose account is in the
\* credential map, whose state is "offline" and whose last_activity is a
\* parseable ISO-8601 timestamp (with or without 'Z' or a UTC offset) older
\* than now minus CLEANUP_OFFLINE_DAYS is returned as a cleanup candidate.
C3_OfflineOldIsCandidate ==
    cutoff_date.set =>
        \A k \in 1..Len(detailed_registrations) :
            LET r == detailed_registrations[k]
            IN  (/\ r.account_id \in DOMAIN credentials_map
                 /\ r.state = "offline"
                 /\ r.last_activity.kind \in {"naive", "z", "offset"}
                 /\ r.last_activity.t < cutoff_date.at)
                => r \in Range(cleanup_candidates)

DeletedIds ==
    {outcomes[k].registry.id : k \in {j \in 1..Len(outcomes) : outcomes[j].op = "delete"}}
        \cup {calls[k].arg : k \in {j \in 1..Len(calls) : calls[j].method = "DELETE"}}

\* C4: an existing registration whose account_id is no key of the credential
\* map (an account_id that could not be extracted from the URL included) is
\* never a cleanup candidate and never passed to delete_ecr_registry,
\* whatever its state and last_activity.
C4_UnknownAccountNeverDeleted ==
    \A k \in 1..Len(detailed_registrations) :
        LET r == detailed_registrations[k]
        IN  r.account_id \notin DOMAIN credentials_map
            => r \notin Range(cleanup_candidates) /\ r.id \notin DeletedIds

\* The classification has run on a batch holding an offline, long inactive
\* registration of an account outside the map and one whose URL yields no
\* account id; the run is over.
C4_Witness ==
    /\ cutoff_date.set /\ pc = "return"
    /\ \E r1, r2 \in Range(detailed_registrations) :
          /\ r1.account_id = None /\ r2.account_id = AcctC
          /\ r1.state = "offline" /\ r2.state = "offline"
          /\ r1.last_activity = [kind |-> "naive", t |-> Old]
          /\ r2.last_activity = [kind |-> "naive", t |-> Old]

Ambiguous(r) ==
    r.state = "offline" /\ r.last_activity.kind \in {"none", "empty", "malformed"}

\* C5: an offline registration whose last_activity is absent (null or empty)
\* or unparseable is kept: it is never a cleanup candidate and never deleted,
\* the classification does not fail, and the records after it in the batch are
\* still classified (a later deletable record is a candidate).
C5_AmbiguousIsKept ==
    cutoff_date.set =>
        \A k \in 1..Len(detailed_registrations) :
            LET r == detailed_registrations[k]
            IN  Ambiguous(r) =>
                  /\ r \notin Range(cleanup_candidates)
                  /\ r.id \notin DeletedIds
                  /\ \A j \in (k + 1)..Len(detailed_registrations) :
                        LET q == detailed_registrations[j]
                        IN  (/\ q.account_id \in DOMAIN credentials_map
                             /\ q.state = "offline"
                             /\ q.last_activity.kind = "naive"
                             /\ q.last_activity.t < cutoff_date.at)
                            => q \in Range(cleanup_candidates)

\* The classification has run on a batch whose first record is offline with a
\* malformed last_activity, of an account in the map, followed by a record
\* that became a candidate.
C5_Witness ==
    /\ cutoff_date.set
    /\ Len(detailed_registrations) >= 2
    /\ Ambiguous(detailed_registrations[1])
    /\ detailed_registrations[1].last_activity.kind = "malformed"
    /\ detailed_registrations[1].account_id \in DOMAIN credentials_map
    /\ detailed_registrations[2] \in Range(cleanup_candidates)

\* C6: every registration passed to delete_ecr_registry was reported by the
\* target with type "ecr", is in state "offline" and has a last_activity whose
\* age at classification is strictly greater than the threshold; other types,
\* other states and ages up to the threshold (the boundary included) are
\* never deleted.
C6_OnlyStaleEcrDeleted ==
    \A id \in DeletedIds :
        \E k \in 1..Len(detail_response) :
            LET raw == detail_response[k]
                clock == cutoff_date.at + CLEANUP_OFFLINE_DAYS
            IN  /\ raw.id = id
                /\ raw.type = "ecr"
                /\ raw.state = "offline"
                /\ raw.last_activity.kind \in {"naive", "z", "offset"}
                /\ clock - raw.last_activity.t > CLEANUP_OFFLINE_DAYS

\* A finished run deleted one registration and kept one whose age equalled
\* the threshold at classification.
C6_Witness ==
    /\ pc = "return"
    /\ Len(DeleteOutcomes) = 1
    /\ \E k \in 1..Len(detail_response) :
          LET raw == detail_response[k]
          IN  /\ raw.type = "ecr" /\ raw.state = "offline"
              /\ raw.last_activity.kind = "naive"
              /\ raw.last_activity.t = cutoff_date.at
              /\ raw.id \notin DeletedIds

MutatingCalls ==
    {k \in 1..Len(calls) :
        calls[k].svc = "registry" /\ calls[k].method \in {"POST", "DELETE"}}

\* C7: while dry-run mode is in effect no mutating call (registry create POST,
\* registry delete DELETE) is issued, in either variant, for any input.
C7_DryRunIssuesNoMutation == DRY_RUN_MODE => MutatingCalls = {}

\* A dry run that has gone through a register and a delete.
C7_Witness ==
    /\ DRY_RUN_MODE /\ pc = "return"
    /\ RegisterOutcomes # <<>> /\ DeleteOutcomes # <<>>

\* C8 (as claimed): with dry-run enabled every outcome of register and of
\* deregister is a success carrying a marker that tells it from a real
\* success: the placeholder id for register, the dry-run reason for deregister.
C8_DryRunOutcomesMarked ==
    DRY_RUN_MODE =>
        \A k \in 1..Len(outcomes) :
            /\ outcomes[k].success
            /\ outcomes[k].op = "register" => outcomes[k].registry_id.kind = "dry-run-id"
            /\ outcomes[k].op = "delete" => outcomes[k].cleanup_reason = DryRunReason

\* C9: within an apply batch every entity of to_register and every cleanup
\* candidate is processed once, in order, and yields one outcome; a failed
\* call (non-success status or transport exception) becomes an outcome of the
\* failed list, adds nothing to the top-level errors, and the entities after
\* it are still processed.
C9_ApplyBatchIndependence ==
    /\ Len(RegisterOutcomes) = (IF pc = "register" THEN idx - 1 ELSE Len(to_register))
    /\ \A k \in 1..Len(RegisterOutcomes) : RegisterOutcomes[k].registry = to_register[k]
    /\ Len(DeleteOutcomes) = (IF pc = "delete" THEN idx - 1 ELSE Len(cleanup_candidates))
    /\ \A k \in 1..Len(DeleteOutcomes) : DeleteOutcomes[k].registry = cleanup_candidates[k]
    /\ result.failed_registrations_list = SelectSeq(RegisterOutcomes, LAMBDA o : ~o.success)
    /\ result.newly_registered = SelectSeq(RegisterOutcomes, LAMBDA o : o.success)
    /\ result.failed_deletions_list = SelectSeq(DeleteOutcomes, LAMBDA o : ~o.success)
    /\ result.deleted_registries = SelectSeq(DeleteOutcomes, LAMBDA o : o.success)
    /\ pc \in {"register", "cleanup", "classify", "delete", "notify"} => result.errors = <<>>

\* Both loops are over: the first register call hit a transport exception and
\* the second one succeeded; the one delete call was refused by the server.
C9_Witness ==
    /\ pc = "notify"
    /\ Len(RegisterOutcomes) = 2
    /\ ~RegisterOutcomes[1].success /\ RegisterOutcomes[1].error = ExceptionMessage
    /\ RegisterOutcomes[2].success
    /\ Len(DeleteOutcomes) = 1
    /\ ~DeleteOutcomes[1].success

AuthenticationFailed ==
    \E k \in 1..Len(result.errors) : result.errors[k] = "Authentication failed"

\* C10: when authentication fails the run ends at once: no call goes to the
\* inventory, the credential-registration or the registry service, nothing is
\* registered or deregistered, and the RunResult holds 'Authentication failed'
\* in errors with every counter still zero.
C10_AuthFailureEndsRun ==
    AuthenticationFailed =>
        /\ pc \in {"return", "idle"}
        /\ \A k \in 1..Len(calls) : calls[k].svc = "auth"
        /\ outcomes = <<>>
        /\ result = [InitialResult(DRY_RUN_MODE, ENABLE_CLEANUP)
                        EXCEPT !.errors = <<"Authentication failed">>]

\* The entry point has returned after a failed token request.
C10_Witness ==
    /\ pc = "idle"
    /\ result.errors = <<"Authentication failed">>
    /\ Len(calls) = 1
    /\ response.code \in {500, 1}

CallsTo(svc) == {k \in 1..Len(calls) : calls[k].svc = svc}

\* The run is past its diff.
DiffDone ==
    pc \notin {"auth", "discover", "creds", "enhance", "existing", "diff"}

\* C11 (as claimed): when Discovery, the Credential Resolver or the
\* Existing-State fetch fails, the component returns an empty result and the
\* workflow goes on to execute the following stages with that empty input
\* instead of ending the run: after a failed Discovery the credential lookup
\* is called, after a failed credential lookup the existing-state fetch is
\* called, after a failed existing-state fetch the diff is computed.
C11_StageFailureContinues ==
    pc = "return" =>
        /\ "discover_ecr_registries" \in log => CallsTo("cspm") # {}
        /\ "get_cspm_account_credentials" \in log => CallsTo("registry") # {}
        /\ "get_existing_registrations" \in log => idx >= 1

\* C11 (amended): a failing component returns an empty result and the
\* workflow treats it as it treats an empty answer.  After a failed Discovery
\* the run ends at once with no error and no further remote call.  After a
\* failed credential lookup no registry call is made and the run ends with
\* one error: "No registries could be enhanced with CSPM credentials" after
\* the enrichment produced nothing (production), "No CSPM credentials found"
\* (manual).  Only after a failed existing-state fetch does the workflow go
\* on: the diff puts every enriched registry in to_register.
C11_StageFailureIsEmptyAnswer ==
    /\ "discover_ecr_registries" \in log =>
          /\ registries = <<>>
          /\ pc \in {"return", "idle"}
          /\ result.errors = <<>>
          /\ CallsTo("cspm") = {} /\ CallsTo("registry") = {}
    /\ "get_cspm_account_credentials" \in log =>
          /\ credentials_map = EmptyMap
          /\ enhanced_registries = <<>>
          /\ CallsTo("registry") = {}
          /\ pc \in {"enhance", "return", "idle"}
          /\ pc \in {"return", "idle"} =>
                result.errors =
                    <<IF variant = "production"
                      THEN "No registries could be enhanced with CSPM credentials"
                      ELSE "No CSPM credentials found">>
    /\ "get_existing_registrations" \in log =>
          /\ existing_registrations = <<>>
          /\ DiffDone => to_register = enhanced_registries

\* A run whose existing-state fetch failed has ended after putting a registry
\* the target already holds in to_register and handing it to register.
C11_Witness ==
    /\ pc = "return"
    /\ "get_existing_registrations" \in log
    /\ \E k \in 1..Len(RegisterOutcomes) :
          RegisterOutcomes[k].registry.registry_url \in Range(UrlsOf(target))
    /\ \E k \in 1..Len(target) : target[k].id[1] = "old" /\ IsEcrWithUrl(target[k])
           /\ \E j \in 1..Len(to_register) : to_register[j].registry_url = target[k].url

\* C12: run_onboarding_workflow always returns a RunResult and never raises:
\* whatever the remote systems answer, an invocation in progress can take its
\* next step, and once it is over the entry point has returned a status that
\* reflects exactly the errors list: statusCode 500 iff errors is non-empty
\* and 200 otherwise (production), exit code 1 iff errors is non-empty and 0
\* otherwise (manual).
C12_StatusReflectsErrors ==
    /\ pc # "idle" => ENABLED NextWide
    /\ (pc = "idle" /\ runs > 0) =>
          IF variant = "production"
          THEN /\ response.kind = "statusCode"
               /\ response.code = (IF result.errors # <<>> THEN 500 ELSE 200)
          ELSE /\ response.kind = "exit"
               /\ response.code = (IF result.errors # <<>> THEN 1 ELSE 0)

\* A production invocation is over after an exception reached the workflow's
\* except clause: errors holds the exception's text, the status is 500.
C12_Witness ==
    /\ pc = "idle" /\ runs > 0
    /\ variant = "production"
    /\ result.errors = <<"'str' object has no attribute 'get'">>
    /\ response = [kind |-> "statusCode", code |-> 500]

\* An invocation in which authentication and every remote fetch succeeded has
\* ended without a register or delete call.
ZeroEntityRun == pc = "return" /\ log = {} /\ outcomes = <<>>

\* C13 (as claimed): a run in which authentication and every remote fetch
\* succeed and which processes zero entities (nothing discovered, no
\* discovered registry with a usable credential, nothing left to register)
\* ends with an empty errors list, in both variants.
C13_ZeroEntitiesNoError == ZeroEntityRun => result.errors = <<>>

\* C13 (amended): such a run ends with an empty errors list when nothing was
\* discovered and when nothing is left to register; when no discovered
\* registry has a usable credential it ends with exactly one error: "No
\* registries could be enhanced with CSPM credentials" in the production
\* variant, "No CSPM credentials found" in the manual variant when the
\* credential map is empty (none when the map holds only other accounts).
C13_ZeroEntitiesErrors ==
    ZeroEntityRun =>
        result.errors =
            IF registries # <<>> /\ enhanced_registries = <<>>
            THEN IF variant = "production"
                 THEN <<"No registries could be enhanced with CSPM credentials">>
                 ELSE IF credentials_map = EmptyMap
                      THEN <<"No CSPM credentials found">>
                      ELSE <<>>
            ELSE <<>>

\* A production run with successful fetches has ended with the error of the
\* empty enrichment: the one discovered registry's account has a CSPM record
\* without external_id.
C13_Witness ==
    /\ ZeroEntityRun
    /\ variant = "production"
    /\ Len(registries) = 1 /\ enhanced_registries = <<>>
    /\ \E k \in 1..Len(cspm) : cspm[k].account_id = registries[1].account_id
                                 /\ cspm[k].external_id = None
    /\ result.errors # <<>>

\* C14 (as claimed): the notification step never fails the run: for every
\* RunResult reaching it (results with a non-empty newly_registered list
\* included), building and delivering the notification leaves the errors list
\* as it was before the step.
C14_NotificationKeepsErrors ==
    [][pc = "notify" => result'.errors = result.errors]_vars

CreateCalls == {k \in 1..Len(calls) : calls[k].method = "POST" /\ calls[k].op = "create"}

\* The invocation in progress follows a non-dry invocation that had the same
\* enriched registries and whose register calls all succeeded, and its own
\* existing-state fetch has returned the target's registrations.
AfterSuccessfulRun ==
    /\ pc # "idle" /\ DiffDone
    /\ previous.ended /\ ~previous.dry_run_mode
    /\ previous.failed = {}
    /\ previous.enhanced_registries = enhanced_registries
    /\ enhanced_registries # <<>>
    /\ "get_existing_registrations" \notin log

C16_SelfHealing ==
    [][/\ (previous.ended /\ pc = "diff") =>
             \A k \in 1..Len(enhanced_registries) :
                 enhanced_registries[k].registry_url \notin Range(UrlsOf(target))
                 => enhanced_registries[k] \in Range(to_register')
       /\ (pc = "register" /\ ~DRY_RUN_MODE /\ Len(outcomes') > Len(outcomes)
              /\ outcomes'[Len(outcomes')].success) =>
             outcomes'[Len(outcomes')].registry.registry_url \in Range(UrlsOf(target'))
      ]_vars

\* The second invocation has registered a registry whose register call
\* failed in the first one.
C16_Witness ==
    /\ runs = 2 /\ previous.ended /\ pc # "idle"
    /\ \E k \in 1..Len(RegisterOutcomes) :
          /\ RegisterOutcomes[k].success
          /\ RegisterOutcomes[k].registry.registry_url \in previous.failed
          /\ RegisterOutcomes[k].registry.registry_url \in Range(UrlsOf(target))
    /\ ~DRY_RUN_MODE

\* C17 (as claimed): no state carries over between invocations of one
\* process: the dry-run override of lambda_handler applies only to the
\* invocation whose event carries dry_run = true; an invocation without the
\* override runs with the configured DRY_RUN_MODE, whatever earlier
\* invocations were given.
C17_OverrideIsPerInvocation ==
    [][(variant = "production" /\ Invoke(FALSE)) => DRY_RUN_MODE' = envDryRun]_vars

\* C18 (as claimed): register and deregister report success for every HTTP
\* response status in the 2xx range and failure for every other status; a
\* failure outcome carries the first server-provided error message when the
\* body has one and otherwise the message "HTTP <status>".
C18_SuccessIffStatus2xx ==
    \A k \in 1..Len(outcomes) :
        responses[k].kind = "http" =>
            /\ outcomes[k].success <=> responses[k].status \in 200..299
            /\ ~outcomes[k].success =>
                  outcomes[k].error =
                      IF responses[k].body = "errors"
                      THEN ServerMessage(responses[k].status)
                      ELSE HttpStatusMessage(responses[k].status)

\* The fetched resources that have both account_id and region.
Addressable ==
    SelectSeq(all_resources, LAMBDA r : Truthy(r.account_id) /\ Truthy(r.region))

Pairs == {<<Addressable[k].account_id, Addressable[k].region>> : k \in 1..Len(Addressable)}

RepositoriesOf(resources, pair) ==
    LET of_pair == SelectSeq(resources, LAMBDA r : <<r.account_id, r.region>> = pair)
    IN  [k \in 1..Len(of_pair) |-> of_pair[k].resource_id]

\* Discovery has run and returned without a failure.
Discovered ==
    /\ pc \notin {"idle", "auth", "discover"}
    /\ CallsTo("inventory") # {}
    /\ "discover_ecr_registries" \notin log

InventoryDetailCalls ==
    {k \in 1..Len(calls) : calls[k].svc = "inventory" /\ calls[k].op = "detail"}

\* C20: a transport or deserialization error during discovery, in the id
\* query or in any detail batch (also after earlier batches succeeded), makes
\* discover_ecr_registries return an empty list without raising: no group of
\* the batches already fetched is returned, the caller records discovered = 0,
\* nothing reaches the workflow's except clause and the run ends.
C20_DiscoveryFailureIsEmpty ==
    "discover_ecr_registries" \in log =>
        /\ registries = <<>>
        /\ result.discovered_registries = 0
        /\ result.errors = <<>>
        /\ pc \in {"return", "idle"}

\* Discovery failed in its second detail batch, after the first batch of
\* batch_size resources had been fetched.
C20_Witness ==
    /\ "discover_ecr_registries" \in log
    /\ Len(inventory) > batch_size
    /\ Cardinality(InventoryDetailCalls) = 2
    /\ \E k \in InventoryDetailCalls : Len(calls[k].arg) = batch_size
    /\ pc = "return"

\* The credential resolver has returned in the current invocation.
Resolved == pc \notin {"idle", "auth", "discover", "creds"} /\ CallsTo("cspm") # {}

\* The account records the service answered with.
Answered == SelectSeq(cspm, LAMBDA a : a.account_id \in AccountIds(registries))

\* C21: the credential map holds only accounts of which some answered record
\* has account_id, role and external id all present, with the role and
\* external id of such a record; an account whose records all miss one of the
\* three is not in the map; a failed lookup yields an empty map; every
\* enriched registry and every registry passed to a create call carries a
\* non-empty role and external id.
C21_OnlyCompleteCredentials ==
    /\ Resolved =>
          /\ \A x \in DOMAIN credentials_map :
                 \E k \in 1..Len(Answered) :
                     /\ Answered[k].account_id = x
                     /\ Truthy(x)
                     /\ Truthy(Answered[k].iam_role_arn)
                     /\ Truthy(Answered[k].external_id)
                     /\ credentials_map[x].iam_role_arn = Answered[k].iam_role_arn
                     /\ credentials_map[x].external_id = Answered[k].external_id
          /\ "get_cspm_account_credentials" \in log => DOMAIN credentials_map = {}
    /\ \A k \in 1..Len(enhanced_registries) :
          /\ Truthy(enhanced_registries[k].iam_role_arn)
          /\ Truthy(enhanced_registries[k].external_id)
    /\ \A k \in 1..Len(RegisterOutcomes) :
          /\ Truthy(RegisterOutcomes[k].registry.iam_role_arn)
          /\ Truthy(RegisterOutcomes[k].registry.external_id)

\* The service answered with a complete record of one account and a record
\* without external id of another; the first account is in the map, the
\* second is not, and a create call was issued for the first.
C21_Witness ==
    /\ Resolved
    /\ log = {}
    /\ \E k \in 1..Len(Answered) : ~Truthy(Answered[k].external_id)
                                       /\ Answered[k].account_id \notin DOMAIN credentials_map
    /\ DOMAIN credentials_map # {}
    /\ CreateCalls # {}

\* Enrichment has run in the current invocation.
Enriched == pc \notin {"idle", "auth", "discover", "creds", "enhance"} /\ Resolved

GroupOf(enhanced) ==
    [account_id |-> enhanced.account_id, region |-> enhanced.region,
     registry_url |-> enhanced.registry_url, repositories |-> enhanced.repositories]

WithCredentials == {k \in 1..Len(registries) : registries[k].account_id \in DOMAIN credentials_map}

\* C22: enhance_registries_with_credentials partitions its input: the groups
\* whose account is in the credential map are the enriched output, in order,
\* once each, with their own fields unchanged and that account's credential
\* fields; the groups whose account is absent are the drop-list, in order,
\* once each, and none of them is in the enriched output.
C22_EnrichmentPartitions ==
    Enriched =>
        LET dropped == missing_credentials(registries, credentials_map)
            kept == SelectSeq(registries, LAMBDA g : g.account_id \in DOMAIN credentials_map)
            lost == SelectSeq(registries, LAMBDA g : g.account_id \notin DOMAIN credentials_map)
        IN  /\ Len(enhanced_registries) + Len(dropped) = Len(registries)
            /\ Len(enhanced_registries) = Cardinality(WithCredentials)
            /\ \A k \in 1..Len(enhanced_registries) :
                   /\ GroupOf(enhanced_registries[k]) = kept[k]
                   /\ enhanced_registries[k].iam_role_arn =
                          credentials_map[kept[k].account_id].iam_role_arn
                   /\ enhanced_registries[k].external_id =
                          credentials_map[kept[k].account_id].external_id
                   /\ enhanced_registries[k].account_name =
                          credentials_map[kept[k].account_id].account_name
            /\ dropped = [k \in 1..Len(lost) |-> lost[k].registry_url]
            /\ \A k \in 1..Len(enhanced_registries) :
                   enhanced_registries[k].registry_url \notin Range(dropped)

\* Of three groups, the two of the account with a credential were enriched
\* and the one of the account without was dropped.
C22_Witness ==
    /\ Enriched
    /\ Len(registries) = 3
    /\ Len(enhanced_registries) = 2
    /\ Len(missing_credentials(registries, credentials_map)) = 1

\* The URLs of the ecr registrations the target held when the invocation
\* started.
UrlsAtStart == Range(UrlsOf(target_at_start))

\* C23: in every completed run the RunResult counts are: discovered = number
\* of groups, enhanced = number of groups with a credential, existing =
\* number of URLs the existing-state fetch returned (every ecr URL of the
\* target when the fetch succeeded, none when it failed), new_registrations +
\* failed_registrations = size of to_register, and each counter equals the
\* length of its detail list; with 2 groups, 1 account with a credential, no
\* existing registration and a successful create call the counts are 2, 1,
\* 0, 1.
C23_CountsMatch ==
    pc = "return" =>
        /\ result.discovered_registries = Len(registries)
        /\ result.enhanced_registries = Cardinality(WithCredentials)
        /\ result.existing_registrations = Len(existing_registrations)
        /\ CallsTo("registry") # {} =>
               Range(existing_registrations) =
                   (IF "get_existing_registrations" \in log THEN {} ELSE UrlsAtStart)
        /\ variant = "production" =>
               result.existing_registrations = Cardinality(Range(existing_registrations))
        /\ result.new_registrations + result.failed_registrations = Len(to_register)
        /\ result.new_registrations = Len(result.newly_registered)
        /\ result.failed_registrations = Len(result.failed_registrations_list)
        /\ result.deleted_registrations = Len(result.deleted_registries)
        /\ result.failed_deletions = Len(result.failed_deletions_list)
        /\ (/\ Len(registries) = 2
            /\ Cardinality(WithCredentials) = 1
            /\ UrlsAtStart = {}
            /\ \A k \in 1..Len(RegisterOutcomes) : RegisterOutcomes[k].success)
           => /\ result.discovered_registries = 2
              /\ result.enhanced_registries = 1
              /\ result.existing_registrations = 0
              /\ result.new_registrations = 1
              /\ Len(to_register) = 1

\* The scenario run: groups of accounts A and B, a credential for A only,
\* nothing registered before; the create call for A's group succeeded.
C23_Witness ==
    /\ pc = "return"
    /\ Len(registries) = 2
    /\ DOMAIN credentials_map = {AcctA}
    /\ UrlsAtStart = {}
    /\ result.new_registrations = 1
    /\ result.failed_registrations = 0
    /\ ~DRY_RUN_MODE
    /\ CreateCalls # {}

RegistryReads ==
    {k \in 1..Len(calls) : calls[k].svc = "registry" /\ calls[k].method = "GET"}

DeleteCalls == {k \in 1..Len(calls) : calls[k].method = "DELETE" /\ calls[k].op = "delete"}

\* C25 (as claimed): every read of the target's registrations used for the
\* diff or the cleanup classification precedes the first mutating call of the
\* run.
C25_ReadsPrecedeMutations ==
    \A r \in RegistryReads : \A m \in MutatingCalls : r < m

\* The position of a stage in the workflow's text.
StageOrder(p) ==
    CASE p = "idle" -> 0     [] p = "auth" -> 1      [] p = "discover" -> 2
      [] p = "creds" -> 3    [] p = "enhance" -> 4   [] p = "existing" -> 5
      [] p = "diff" -> 6     [] p = "register" -> 7  [] p = "cleanup" -> 8
      [] p = "classify" -> 9 [] p = "delete" -> 10   [] p = "notify" -> 11
      [] p = "return" -> 12

\* The listing queries issued before call k.
QueriesBefore(k) == {q \in RegistryQueries : q < k}

\* C25 (amended): in every run the stages execute in the order Auth,
\* Discovery, Credential Resolution, Enrichment, Existing-State Fetch, Diff,
\* register loop, detailed fetch, cleanup classification, delete loop, Report,
\* each completing before the next starts and none repeated; the read used
\* for the diff precedes every create call, and the read used for the cleanup
\* classification follows the register loop and precedes every delete call.
C25_StagesInOrder ==
    /\ [][pc' # pc =>
             \/ pc = "return" /\ pc' = "idle"
             \/ pc # "return" /\ StageOrder(pc') > StageOrder(pc)]_vars
    /\ [](/\ \A c \in CreateCalls : Cardinality(QueriesBefore(c)) = 1
          /\ \A d \in DeleteCalls :
                 /\ Cardinality(QueriesBefore(d)) = 2
                 /\ \A c \in CreateCalls : c < d
          /\ Cardinality(RegistryQueries) <= 2)

\* A run issued a create call, then read the target for the cleanup
\* classification, then issued a delete call.
C25_Witness ==
    /\ pc = "return"
    /\ CreateCalls # {} /\ DeleteCalls # {}
    /\ \E r \in RegistryReads :
           /\ \A c \in CreateCalls : c < r
           /\ \A d \in DeleteCalls : r < d

\* The instant identify_registrations_for_cleanup classified against: its
\* cutoff plus the threshold.
ClassifiedAt == cutoff_date.at + CLEANUP_OFFLINE_DAYS

\* C26 (as claimed): within one run a single value of "now" is used for
\* cleanup: the days offline in the cleanup reason of every deleted
\* registration are counted from the instant the registrations were
\* classified against.
C26_SingleNow ==
    \A k \in 1..Len(DeleteOutcomes) :
        DeleteOutcomes[k].cleanup_reason.kind = "offline_days" =>
            DeleteOutcomes[k].cleanup_reason.days =
                ClassifiedAt - DeleteOutcomes[k].cleanup_reason.last_activity.t

\* The ids submitted to the detail endpoint, in submission order.
RECURSIVE Flatten(_)
Flatten(batches) ==
    IF batches = <<>> THEN <<>> ELSE Head(batches).arg \o Flatten(Tail(batches))

SubmittedIds ==
    Flatten(SelectSeq(calls, LAMBDA c : c.svc = "inventory" /\ c.op = "detail"))

\* C27 (as claimed): discovery submits every resource id of the id query in
\* exactly one detail batch of at most batch_size ids, and when the detail
\* responses hold no record for some submitted id the partial fetch is
\* flagged (an error is reported or discovery fails) instead of groups being
\* returned from the incomplete data.
C27_PartialFetchFlagged ==
    (pc \notin {"idle", "auth", "discover"} /\ InventoryDetailCalls # {}) =>
        /\ "discover_ecr_registries" \notin log =>
              /\ SubmittedIds = ResourceIdsOf(inventory)
              /\ \A k \in InventoryDetailCalls : Len(calls[k].arg) <= batch_size
        /\ (/\ "discover_ecr_registries" \notin log
            /\ Len(all_resources) < Len(SubmittedIds)) =>
              \/ registries = <<>>
              \/ result.errors # <<>>

\* C28 (as claimed): whatever the outcome of the existing-state fetch, no
\* create call of a run carries a registry URL that the target system held as
\* an ecr registration when the run started.
C28_NoCreateForHeldUrl ==
    \A k \in CreateCalls : calls[k].arg \notin UrlsAtStart

\* C29: within one run at most one create call is issued per registry URL and
\* at most one delete call per registration id: a failed call is not sent
\* again in the same run, each entry of to_register and each cleanup
\* candidate gets at most one call, and no two entries of to_register share a
\* registry_url.
C29_AtMostOneCallPerEntity ==
    /\ \A j, k \in CreateCalls : calls[j].arg = calls[k].arg => j = k
    /\ \A j, k \in DeleteCalls : calls[j].arg = calls[k].arg => j = k
    /\ \A j, k \in 1..Len(to_register) :
           to_register[j].registry_url = to_register[k].registry_url => j = k
    /\ Cardinality(CreateCalls) <= Len(to_register)
    /\ Cardinality(DeleteCalls) <= Len(cleanup_candidates)

\* A finished run that sent two create calls and two delete calls, one of
\* each answered with a failure.
C29_Witness ==
    /\ pc = "return"
    /\ Cardinality(CreateCalls) = 2 /\ Cardinality(DeleteCalls) = 2
    /\ \E k \in 1..Len(RegisterOutcomes) : ~RegisterOutcomes[k].success
    /\ \E k \in 1..Len(DeleteOutcomes) : ~DeleteOutcomes[k].success

\* The invocation has returned, the other variant has run before on the same
\* remote data with the same dry-run setting, and both were answered alike:
\* the same stages failed and the create calls got the same answers.
SameResponses ==
    /\ pc = "return"
    /\ counterpart # NoCounterpart
    /\ counterpart.dry_run_mode = DRY_RUN_MODE
    /\ counterpart.log = log
    /\ counterpart.responses = responses

\* C30 (as claimed): with cleanup disabled and the same dry-run setting, the
\* manual and the production variant answered alike issue the same sequence
\* of create calls and return the same discovered, enhanced, existing, new
\* and failed counts and the same emptiness of the errors list.
C30_VariantsEquivalent ==
    (~ENABLE_CLEANUP /\ SameResponses) =>
        /\ counterpart.creates = CreateUrls
        /\ counterpart.discovered_registries = result.discovered_registries
        /\ counterpart.enhanced_registries = result.enhanced_registries
        /\ counterpart.existing_registrations = result.existing_registrations
        /\ counterpart.new_registrations = result.new_registrations
        /\ counterpart.failed_registrations = result.failed_registrations
        /\ counterpart.no_errors = (result.errors = <<>>)

====
